---- MODULE Spec2Model ----
(***************************************************************************)
(* A model of the movie catalog: the two storage backends (StorageJson,    *)
(* StorageCsv), and the menu loop of MovieApp with its Add, Delete and     *)
(* Update commands.                                                        *)
(*                                                                         *)
(* Text is a sequence of one-character strings.  A rating is a Python      *)
(* float on a grid of tenths and is held as the number of tenths           *)
(* (8.7 is 87).  A Python dict is the sequence of its items in insertion   *)
(* order.  An optional value (None or a value) is a sequence of length 0   *)
(* or 1.                                                                   *)
(***************************************************************************)
EXTENDS Integers, Sequences, FiniteSets, TLC

VARIABLES
    storage,    \* which backend the storage object is: "json", "csv", or "both" when the two run side by side
    jsonFile,   \* the file of the StorageJson object
    csvFile,    \* the file of the StorageCsv object
    apiKey,     \* MovieApp._api_key is set
    loop,       \* MovieApp.run: "menu" while looping, "exited" after choice 0, "raised" when an exception left run()
    last        \* the operation that ran last: its inputs, what it returned, printed and called

vars == <<storage, jsonFile, csvFile, apiKey, loop, last>>

-----------------------------------------------------------------------------
(* Bounds of the model *)

\* A catalog holds at most this many movies in the model.
MaxMovies == 2

\* The most movies of a catalog the Stats command is run over
MaxStats == 4

\* The longest year string the lookup answers with
MaxYearLen == 5

-----------------------------------------------------------------------------
(* Text and the conversions of Python's str(), int() and float() *)

Digits == <<"0", "1", "2", "3", "4", "5", "6", "7", "8", "9">>

\* The value of each decimal digit
DigitMap == [c \in {"0", "1", "2", "3", "4", "5", "6", "7", "8", "9"} |->
                CHOOSE i \in 0..9 : Digits[i + 1] = c]

\* str.isdigit() of one character
IsDigit(c) == c \in DOMAIN DigitMap

DigitVal(c) == DigitMap[c]

None == <<>>

Some(v) == <<v>>

RECURSIVE NatToStr(_)
NatToStr(n) ==
    IF n < 10 THEN <<Digits[n + 1]>>
    ELSE NatToStr(n \div 10) \o <<Digits[(n % 10) + 1]>>

\* str(n) of an int
IntToStr(n) == IF n < 0 THEN <<"-">> \o NatToStr(0 - n) ELSE NatToStr(n)

\* str(x) of a float x = r/10: the shortest text that reads back as x
FloatToStr(r) ==
    LET a == IF r < 0 THEN 0 - r ELSE r
        body == NatToStr(a \div 10) \o <<".">> \o <<Digits[(a % 10) + 1]>>
    IN IF r < 0 THEN <<"-">> \o body ELSE body

RECURSIVE LStrip(_)
LStrip(s) == IF s # <<>> /\ Head(s) = " " THEN LStrip(Tail(s)) ELSE s

RECURSIVE RStrip(_)
RStrip(s) ==
    IF s # <<>> /\ s[Len(s)] = " " THEN RStrip(SubSeq(s, 1, Len(s) - 1)) ELSE s

\* str.strip()
Strip(s) == RStrip(LStrip(s))

AllDigits(s) == \A i \in 1..Len(s) : IsDigit(s[i])

RECURSIVE DigitsValue(_, _, _)
DigitsValue(s, i, acc) ==
    IF i > Len(s) THEN acc ELSE DigitsValue(s, i + 1, acc * 10 + DigitVal(s[i]))

\* The number a run of digits writes
DigitsToNat(s) == DigitsValue(s, 1, 0)

Ok(v) == [exc |-> "none", val |-> v]

Raise(e) == [exc |-> e, val |-> <<>>]

\* int(text): surrounding blanks, an optional sign, then digits
ParseInt(text) ==
    LET Parse(s) ==
            LET signed == s # <<>> /\ Head(s) \in {"-", "+"}
                d == IF signed THEN Tail(s) ELSE s
            IN IF d = <<>> \/ ~AllDigits(d) THEN Raise("ValueError")
               ELSE Ok(IF signed /\ Head(s) = "-" THEN 0 - DigitsToNat(d)
                       ELSE DigitsToNat(d))
    IN Parse(Strip(text))

\* The position of the first "." of s, or 0
DotAt(s) == IF \E i \in 1..Len(s) : s[i] = "."
            THEN CHOOSE i \in 1..Len(s) : s[i] = "." /\ \A j \in 1..(i - 1) : s[j] # "."
            ELSE 0

\* float(text): surrounding blanks, an optional sign, digits with an optional
\* point.  The result is in tenths; a text with more than one digit after the
\* point is off the grid of the model ("OffGrid") and is in no input set.
ParseFloat(text) ==
    LET Parts(neg, ip, fp) ==
            IF (ip = <<>> /\ fp = <<>>) \/ ~AllDigits(ip) \/ ~AllDigits(fp)
            THEN Raise("ValueError")
            ELSE IF Len(fp) > 1 THEN Raise("OffGrid")
            ELSE LET mag == DigitsToNat(ip) * 10
                            + (IF fp = <<>> THEN 0 ELSE DigitVal(fp[1]))
                 IN Ok(IF neg THEN 0 - mag ELSE mag)
        Split(neg, d, k) ==
            Parts(neg,
                  IF k = 0 THEN d ELSE SubSeq(d, 1, k - 1),
                  IF k = 0 THEN <<>> ELSE SubSeq(d, k + 1, Len(d)))
        Unsigned(neg, d) == Split(neg, d, DotAt(d))
        Parse(s) ==
            IF s # <<>> /\ Head(s) \in {"-", "+"}
            THEN Unsigned(Head(s) = "-", Tail(s))
            ELSE Unsigned(FALSE, s)
    IN Parse(Strip(text))

-----------------------------------------------------------------------------
(* Python dicts and lists *)

PyDict(items) == [py |-> "dict", items |-> items]

PyList(items) == [py |-> "list", items |-> items]

\* k in d
DictHas(d, k) == \E i \in 1..Len(d) : d[i].k = k

\* d[k]
DictGet(d, k) == d[CHOOSE i \in 1..Len(d) : d[i].k = k].v

\* d[k] = v: an existing key keeps its place, a new key goes last
DictSet(d, k, v) ==
    IF DictHas(d, k)
    THEN [i \in 1..Len(d) |-> IF d[i].k = k THEN [k |-> k, v |-> v] ELSE d[i]]
    ELSE Append(d, [k |-> k, v |-> v])

\* del d[k]
DictDel(d, k) == SelectSeq(d, LAMBDA e : e.k # k)

Keys(d) == {d[i].k : i \in 1..Len(d)}

\* A dict as a mapping: two dicts are equal (==) when these are
AsMap(d) == {<<d[i].k, d[i].v>> : i \in 1..Len(d)}

\* The movie record add_movie builds; "if poster:" drops None and ""
MovieData(year, rating, poster) ==
    IF poster # None /\ poster[1] # <<>>
    THEN [year |-> year, rating |-> rating, poster |-> poster[1]]
    ELSE [year |-> year, rating |-> rating]

-----------------------------------------------------------------------------
(* StorageJson.  The file is missing, holds text that is not JSON          *)
(* ("invalid"), or holds a JSON document, kept as its tree of values.      *)

JsonMissing == [kind |-> "missing"]

JsonInvalid == [kind |-> "invalid"]

JsonText(doc) == [kind |-> "json", doc |-> doc]

JsonOfMovie(m) ==
    [t |-> "object",
     members |->
        <<[name |-> "year", value |-> [t |-> "int", n |-> m.year]],
          [name |-> "rating", value |-> [t |-> "real", x |-> m.rating]]>>
        \o (IF "poster" \in DOMAIN m
            THEN <<[name |-> "poster", value |-> [t |-> "string", s |-> m.poster]]>>
            ELSE <<>>)]

\* json.dump(movies, file, indent=4)
JsonDump(movies) ==
    [t |-> "object",
     members |-> [i \in 1..Len(movies) |->
                    [name |-> movies[i].k, value |-> JsonOfMovie(movies[i].v)]]]

JsonScalar(v) ==
    CASE v.t = "int" -> v.n
      [] v.t = "real" -> v.x
      [] v.t = "string" -> v.s

\* The dict of an inner JSON object; a repeated name keeps its last value
MovieOfJson(o) ==
    LET names == {o.members[i].name : i \in 1..Len(o.members)}
        lastOf(n) == CHOOSE i \in 1..Len(o.members) :
                        /\ o.members[i].name = n
                        /\ \A j \in (i + 1)..Len(o.members) : o.members[j].name # n
    IN [n \in names |-> JsonScalar(o.members[lastOf(n)].value)]

RECURSIVE DictOfMembers(_, _)
DictOfMembers(ms, acc) ==
    IF ms = <<>> THEN acc
    ELSE DictOfMembers(Tail(ms), DictSet(acc, Head(ms).name, MovieOfJson(Head(ms).value)))

\* json.load(file) of a document: an object gives a dict, an array a list
JsonLoad(doc) ==
    IF doc.t = "object" THEN PyDict(DictOfMembers(doc.members, <<>>))
    ELSE PyList(<<>>)

\* StorageJson.__init__: a missing or invalid file is replaced by "{}"
StorageJson_init(f) ==
    IF f.kind \in {"missing", "invalid"} THEN JsonText(JsonDump(<<>>)) ELSE f

StorageJson_list_movies(f) ==
    IF f.kind \in {"missing", "invalid"} THEN Ok(PyDict(<<>>))
    ELSE Ok(JsonLoad(f.doc))

StorageJson_save_movies(movies) == JsonText(JsonDump(movies))

\* Each mutating method gives the file it leaves, the exception it raises and
\* what its call of list_movies() returned
Done(f, got) == [file |-> f, exc |-> "none", loaded |-> got]

Failed(f, e, got) == [file |-> f, exc |-> e, loaded |-> got]

\* add_movie that starts from an empty dict instead of the loaded catalog
StorageJson_add_movie_fresh(f, title, year, rating, poster) ==
    LET Body(got) ==
            IF got.exc # "none" THEN Failed(f, got.exc, got)
            ELSE IF got.val.py # "dict" THEN Failed(f, "TypeError", got)
            ELSE Done(StorageJson_save_movies(
                        DictSet(<<>>, title, MovieData(year, rating, poster))),
                      got)
    IN Body(StorageJson_list_movies(f))

StorageJson_add_movie(f, title, year, rating, poster) ==
    LET Body(got) ==
            IF got.exc # "none" THEN Failed(f, got.exc, got)
            ELSE IF got.val.py # "dict" THEN Failed(f, "TypeError", got)
            ELSE Done(StorageJson_save_movies(
                        DictSet(got.val.items, title, MovieData(year, rating, poster))),
                      got)
    IN Body(StorageJson_list_movies(f))

\* delete_movie without the test "if title in movies": del raises KeyError
StorageJson_delete_movie_nocheck(f, title) ==
    LET Body(got) ==
            IF got.exc # "none" THEN Failed(f, got.exc, got)
            ELSE IF got.val.py # "dict" THEN Failed(f, "TypeError", got)
            ELSE IF ~DictHas(got.val.items, title) THEN Failed(f, "KeyError", got)
            ELSE Done(StorageJson_save_movies(DictDel(got.val.items, title)), got)
    IN Body(StorageJson_list_movies(f))

StorageJson_delete_movie(f, title) ==
    LET Body(got) ==
            IF got.exc # "none" THEN Failed(f, got.exc, got)
            ELSE IF got.val.py = "dict" /\ DictHas(got.val.items, title)
            THEN Done(StorageJson_save_movies(DictDel(got.val.items, title)), got)
            ELSE Done(f, got)
    IN Body(StorageJson_list_movies(f))

StorageJson_update_movie(f, title, rating) ==
    LET Body(got) ==
            IF got.exc # "none" THEN Failed(f, got.exc, got)
            ELSE IF got.val.py = "dict" /\ DictHas(got.val.items, title)
            THEN Done(StorageJson_save_movies(
                        DictSet(got.val.items, title,
                                [DictGet(got.val.items, title) EXCEPT !.rating = rating])),
                      got)
            ELSE Done(f, got)
    IN Body(StorageJson_list_movies(f))

-----------------------------------------------------------------------------
(* StorageCsv.  The file is missing, holds text the csv reader refuses     *)
(* with csv.Error ("error"), or holds a header row and data rows of cells. *)
(* Every data cell is text; blank lines are rows without cells.            *)

CsvMissing == [kind |-> "missing"]

CsvError == [kind |-> "error"]

CsvText(header, rows) == [kind |-> "csv", header |-> header, rows |-> rows]

fieldnames == <<"title", "year", "rating", "poster">>

\* A row written without the poster of the movie
CsvRow_noposter(title, details) ==
    <<title, IntToStr(details.year), FloatToStr(details.rating), <<>>>>

\* The row _save_movies writes for one movie: the writer applies str() to
\* the year and the rating
CsvRow(title, details) ==
    <<title,
      IntToStr(details.year),
      FloatToStr(details.rating),
      IF "poster" \in DOMAIN details THEN details.poster ELSE <<>>>>

\* StorageCsv._save_movies
StorageCsv_save_movies(movies) ==
    CsvText(fieldnames, [i \in 1..Len(movies) |-> CsvRow(movies[i].k, movies[i].v)])

\* "name in row" for the dict csv.DictReader makes of a row
HasField(header, name) == \E i \in 1..Len(header) : header[i] = name

\* row[name]: KeyError without that column, None (restval) in a short row
Field(header, row, name) ==
    IF ~HasField(header, name) THEN Raise("KeyError")
    ELSE LET i == CHOOSE j \in 1..Len(header) :
                     /\ header[j] = name
                     /\ \A m \in (j + 1)..Len(header) : header[m] # name
         IN Ok(IF i <= Len(row) THEN Some(row[i]) ELSE None)

\* int(row['year']) and float(row['rating']): TypeError on None
IntOf(cell) ==
    IF cell.exc # "none" THEN Raise(cell.exc)
    ELSE IF cell.val = None THEN Raise("TypeError")
    ELSE ParseInt(cell.val[1])

FloatOf(cell) ==
    IF cell.exc # "none" THEN Raise(cell.exc)
    ELSE IF cell.val = None THEN Raise("TypeError")
    ELSE ParseFloat(cell.val[1])

\* The loop body with "if 'poster' in row" alone: an empty cell is a poster
RowMovie_anyposter(header, row) ==
    LET Build(title, year, rating, poster) ==
            IF title.exc # "none" THEN Raise(title.exc)
            ELSE IF year.exc # "none" THEN Raise(year.exc)
            ELSE IF rating.exc # "none" THEN Raise(rating.exc)
            ELSE Ok([k |-> title.val[1],
                     v |-> IF poster = None THEN [year |-> year.val, rating |-> rating.val]
                           ELSE [year |-> year.val, rating |-> rating.val,
                                 poster |-> poster[1]]])
    IN Build(Field(header, row, "title"),
             IntOf(Field(header, row, "year")),
             FloatOf(Field(header, row, "rating")),
             IF HasField(header, "poster") THEN Field(header, row, "poster").val ELSE None)

\* The body of the loop of list_movies for one row.  The title column is the
\* first column of every file of the model, so a row with cells has a title.
RowMovie(header, row) ==
    LET Build(title, year, rating, poster) ==
            IF title.exc # "none" THEN Raise(title.exc)
            ELSE IF year.exc # "none" THEN Raise(year.exc)
            ELSE IF rating.exc # "none" THEN Raise(rating.exc)
            ELSE Ok([k |-> title.val[1], v |-> MovieData(year.val, rating.val, poster)])
    IN Build(Field(header, row, "title"),
             IntOf(Field(header, row, "year")),
             FloatOf(Field(header, row, "rating")),
             IF HasField(header, "poster") THEN Field(header, row, "poster").val ELSE None)

RECURSIVE ReadRows(_, _, _)
ReadRows(header, rows, movies) ==
    IF rows = <<>> THEN Ok(PyDict(movies))
    ELSE IF Head(rows) = <<>> THEN ReadRows(header, Tail(rows), movies)
    ELSE LET Put(m) ==
                IF m.exc # "none" THEN Raise(m.exc)
                ELSE ReadRows(header, Tail(rows), DictSet(movies, m.val.k, m.val.v))
         IN Put(RowMovie(header, Head(rows)))

\* StorageCsv.__init__: a missing file is created with the header row
StorageCsv_init(f) == IF f.kind = "missing" THEN CsvText(fieldnames, <<>>) ELSE f

\* StorageCsv.list_movies: FileNotFoundError and csv.Error give {}
StorageCsv_list_movies(f) ==
    IF f.kind \in {"missing", "error"} THEN Ok(PyDict(<<>>))
    ELSE ReadRows(f.header, f.rows, <<>>)

StorageCsv_add_movie(f, title, year, rating, poster) ==
    LET Body(got) ==
            IF got.exc # "none" THEN Failed(f, got.exc, got)
            ELSE Done(StorageCsv_save_movies(
                        DictSet(got.val.items, title, MovieData(year, rating, poster))),
                      got)
    IN Body(StorageCsv_list_movies(f))

StorageCsv_delete_movie(f, title) ==
    LET Body(got) ==
            IF got.exc # "none" THEN Failed(f, got.exc, got)
            ELSE IF DictHas(got.val.items, title)
            THEN Done(StorageCsv_save_movies(DictDel(got.val.items, title)), got)
            ELSE Done(f, got)
    IN Body(StorageCsv_list_movies(f))

\* update_movie that builds a new record of the year and the new rating
StorageCsv_update_movie_rebuild(f, title, rating) ==
    LET Body(got) ==
            IF got.exc # "none" THEN Failed(f, got.exc, got)
            ELSE IF DictHas(got.val.items, title)
            THEN Done(StorageCsv_save_movies(
                        DictSet(got.val.items, title,
                                MovieData(DictGet(got.val.items, title).year, rating, None))),
                      got)
            ELSE Done(f, got)
    IN Body(StorageCsv_list_movies(f))

StorageCsv_update_movie(f, title, rating) ==
    LET Body(got) ==
            IF got.exc # "none" THEN Failed(f, got.exc, got)
            ELSE IF DictHas(got.val.items, title)
            THEN Done(StorageCsv_save_movies(
                        DictSet(got.val.items, title,
                                [DictGet(got.val.items, title) EXCEPT !.rating = rating])),
                      got)
            ELSE Done(f, got)
    IN Body(StorageCsv_list_movies(f))

-----------------------------------------------------------------------------
(* The storage object behind the IStorage interface *)

File == IF storage = "json" THEN jsonFile ELSE csvFile

SetFile(f) ==
    IF storage = "json" THEN jsonFile' = f /\ UNCHANGED csvFile
    ELSE csvFile' = f /\ UNCHANGED jsonFile

list_movies(s, f) ==
    IF s = "json" THEN StorageJson_list_movies(f) ELSE StorageCsv_list_movies(f)

add_movie(s, f, title, year, rating, poster) ==
    IF s = "json" THEN StorageJson_add_movie(f, title, year, rating, poster)
    ELSE StorageCsv_add_movie(f, title, year, rating, poster)

delete_movie(s, f, title) ==
    IF s = "json" THEN StorageJson_delete_movie(f, title)
    ELSE StorageCsv_delete_movie(f, title)

update_movie(s, f, title, rating) ==
    IF s = "json" THEN StorageJson_update_movie(f, title, rating)
    ELSE StorageCsv_update_movie(f, title, rating)

save_movies(s, movies) ==
    IF s = "json" THEN StorageJson_save_movies(movies) ELSE StorageCsv_save_movies(movies)

\* What list_movies() returns now
Listing == list_movies(storage, File)

\* No more than MaxMovies movies are ever stored: a call that would add one
\* more is not made
Room(got, title) ==
    got.exc = "none" =>
        \/ Len(got.val.items) < MaxMovies
        \/ (got.val.py = "dict" /\ DictHas(got.val.items, title))

-----------------------------------------------------------------------------
(* Inputs *)

TA == <<"A">>

TB == <<"B">>

Tlow == <<"a">>

Titles == {TA, TB, Tlow}

PosterUrl == <<"p">>

\* The (year, rating, poster) arguments of the direct calls of add_movie: a
\* poster of None (the default), of "" and of a URL
AddArgs ==
    { <<1999, 87, Some(PosterUrl)>>,
      <<1999, 0, Some(PosterUrl)>>,
      <<2010, 0, None>>,
      <<2010, 87, Some(<<>>)>> }

\* The rating argument of the direct calls of update_movie
Ratings == {0, 87}

\* The movie records of the catalogs handed to _save_movies: the last one
\* holds a poster that is present and empty
SaveRecords ==
    {MovieData(y, r, p) : y \in {-5, 2010}, r \in {0, 87, 100}, p \in {None, Some(PosterUrl)}}
    \cup {[year |-> 2010, rating |-> 87, poster |-> <<>>]}

\* The dicts of at most MaxMovies movies with records from recs
Catalogs(recs) ==
    UNION { { c \in [1..n -> [k : Titles, v : recs]] :
                \A i, j \in 1..n : c[i].k = c[j].k => i = j } : n \in 0..MaxMovies }

\* The files a storage object can be constructed over
JsonFiles ==
    { JsonMissing,
      JsonInvalid,
      JsonText([t |-> "array"]),
      JsonText(JsonDump(<<[k |-> TA, v |-> MovieData(1999, 87, Some(PosterUrl))]>>)) }

CsvFiles ==
    { CsvMissing,
      CsvError,
      \* a file of the three-column format, the rating written without a point
      CsvText(<<"title", "year", "rating">>, <<<<TA, <<"1", "9", "9", "9">>, <<"9">>>>>>),
      \* a blank line between the header and a row
      CsvText(fieldnames, <<<<>>, <<TB, <<"2", "0", "1", "0">>, <<"8", ".", "7">>, PosterUrl>>>>),
      \* a year cell that is no number
      CsvText(fieldnames, <<<<TA, <<"a", "b", "c">>, <<"5", ".", "0">>, <<>>>>>>),
      \* a row cut short
      CsvText(fieldnames, <<<<TA>>>>),
      \* no year column
      CsvText(<<"title", "rating", "poster">>, <<<<TA, <<"5", ".", "0">>, <<>>>>>>) }

\* The record of the operation that ran last
Last(op) ==
    [op |-> op, title |-> <<>>, year |-> 0, rating |-> 0, poster |-> None,
     movies |-> <<>>, typed |-> <<>>, typed2 |-> <<>>, fetch |-> "none",
     pre |-> Ok(PyDict(<<>>)), exc |-> "none", out |-> "", calls |-> <<>>,
     stats |-> <<>>, year_str |-> None]

-----------------------------------------------------------------------------
(* The storage object called directly *)

InitStorage ==
    /\ storage \in {"json", "csv"}
    /\ jsonFile \in (IF storage = "json" THEN {StorageJson_init(f) : f \in JsonFiles}
                     ELSE {JsonMissing})
    /\ csvFile \in (IF storage = "csv" THEN {StorageCsv_init(f) : f \in CsvFiles}
                    ELSE {CsvMissing})
    /\ apiKey = FALSE
    /\ loop = "none"
    /\ last = Last("init")

ListMovies ==
    /\ loop = "none" /\ storage # "both"
    /\ LET Ran(got) == last' = [Last("list_movies") EXCEPT !.pre = got, !.exc = got.exc]
       IN Ran(Listing)
    /\ UNCHANGED <<storage, jsonFile, csvFile, apiKey, loop>>

AddMovie(title, year, rating, poster) ==
    /\ loop = "none" /\ storage # "both"
    /\ LET Ran(res) ==
               /\ Room(res.loaded, title)
               /\ SetFile(res.file)
               /\ last' = [Last("add_movie") EXCEPT !.title = title, !.year = year,
                              !.rating = rating, !.poster = poster,
                              !.pre = res.loaded, !.exc = res.exc]
       IN Ran(add_movie(storage, File, title, year, rating, poster))
    /\ UNCHANGED <<storage, apiKey, loop>>

DeleteMovie(title) ==
    /\ loop = "none" /\ storage # "both"
    /\ LET Ran(res) ==
               /\ SetFile(res.file)
               /\ last' = [Last("delete_movie") EXCEPT !.title = title,
                              !.pre = res.loaded, !.exc = res.exc]
       IN Ran(delete_movie(storage, File, title))
    /\ UNCHANGED <<storage, apiKey, loop>>

UpdateMovie(title, rating) ==
    /\ loop = "none" /\ storage # "both"
    /\ LET Ran(res) ==
               /\ SetFile(res.file)
               /\ last' = [Last("update_movie") EXCEPT !.title = title, !.rating = rating,
                              !.pre = res.loaded, !.exc = res.exc]
       IN Ran(update_movie(storage, File, title, rating))
    /\ UNCHANGED <<storage, apiKey, loop>>

NextStorage ==
    \/ ListMovies
    \/ \E t \in Titles, a \in AddArgs : AddMovie(t, a[1], a[2], a[3])
    \/ \E t \in Titles : DeleteMovie(t)
    \/ \E t \in Titles, r \in Ratings : UpdateMovie(t, r)

SpecStorage == InitStorage /\ [][NextStorage]_vars

-----------------------------------------------------------------------------
(* _save_movies followed by list_movies(), for every catalog *)

InitSave ==
    /\ storage \in {"json", "csv"}
    /\ jsonFile = (IF storage = "json" THEN StorageJson_init(JsonMissing) ELSE JsonMissing)
    /\ csvFile = (IF storage = "csv" THEN StorageCsv_init(CsvMissing) ELSE CsvMissing)
    /\ apiKey = FALSE
    /\ loop = "none"
    /\ \E c \in Catalogs(SaveRecords) : last = [Last("input") EXCEPT !.movies = c]

SaveMovies ==
    /\ loop = "none" /\ storage # "both"
    /\ last.op = "input"
    /\ SetFile(save_movies(storage, last.movies))
    /\ last' = [Last("_save_movies") EXCEPT !.movies = last.movies]
    /\ UNCHANGED <<storage, apiKey, loop>>

NextSave == SaveMovies \/ ListMovies

SpecSave == InitSave /\ [][NextSave]_vars

-----------------------------------------------------------------------------
(* A StorageJson and a StorageCsv given the same calls *)

InitBoth ==
    /\ storage = "both"
    /\ jsonFile = StorageJson_init(JsonMissing)
    /\ csvFile = StorageCsv_init(CsvMissing)
    /\ apiKey = FALSE
    /\ loop = "none"
    /\ last = Last("init")

\* One call made on both objects; last.pre is what the StorageJson had loaded
Both(op, title, year, rating, poster, j, c) ==
    /\ jsonFile' = j.file
    /\ csvFile' = c.file
    /\ last' = [Last(op) EXCEPT !.title = title, !.year = year, !.rating = rating,
                   !.poster = poster, !.pre = j.loaded,
                   !.exc = IF j.exc # "none" THEN j.exc ELSE c.exc]
    /\ UNCHANGED <<storage, apiKey, loop>>

BothAdd(title, year, rating, poster) ==
    /\ storage = "both"
    /\ LET Ran(j, c) ==
               /\ Room(j.loaded, title) /\ Room(c.loaded, title)
               /\ Both("add_movie", title, year, rating, poster, j, c)
       IN Ran(StorageJson_add_movie(jsonFile, title, year, rating, poster),
              StorageCsv_add_movie(csvFile, title, year, rating, poster))

BothDelete(title) ==
    /\ storage = "both"
    /\ Both("delete_movie", title, 0, 0, None,
            StorageJson_delete_movie(jsonFile, title),
            StorageCsv_delete_movie(csvFile, title))

BothUpdate(title, rating) ==
    /\ storage = "both"
    /\ Both("update_movie", title, 0, rating, None,
            StorageJson_update_movie(jsonFile, title, rating),
            StorageCsv_update_movie(csvFile, title, rating))

NextBoth ==
    \/ \E t \in Titles, a \in AddArgs : BothAdd(t, a[1], a[2], a[3])
    \/ \E t \in Titles : BothDelete(t)
    \/ \E t \in Titles, r \in Ratings : BothUpdate(t, r)

SpecBoth == InitBoth /\ [][NextBoth]_vars

-----------------------------------------------------------------------------
(* MovieApp: the commands of the menu *)

NA == <<"N", "/", "A">>

\* What the lookup service can answer to one request
Failures == {"ConnectionError", "Timeout", "HTTPError", "NotFound"}

\* The bodies of the answers with a movie: each key is present or not
Found ==
    { [Title |-> Some(TA), Year |-> Some(<<"1", "9", "9", "9">>),
       imdbRating |-> Some(<<"8", ".", "7">>), Poster |-> Some(PosterUrl)],
      [Title |-> None, Year |-> Some(<<"2", "0", "1", "0", "-">>),
       imdbRating |-> Some(<<"1", "1", ".", "0">>), Poster |-> Some(NA)],
      [Title |-> Some(TA), Year |-> Some(NA),
       imdbRating |-> Some(NA), Poster |-> None] }

Responses ==
    {[kind |-> k, data |-> <<>>] : k \in Failures}
    \cup {[kind |-> "Found", data |-> d] : d \in Found}

\* The lines typed at the prompts
TypedTitles == {<<" ">>, TA, <<"a", " ">>}

TypedRatings == {<<"a", "b", "c">>, <<"1", "1">>, <<"-", "1">>, <<"7", ".", "5">>}

\* _fetch_movie_from_api: the exception it raises, or None, or the data
fetch_movie_from_api(key, resp) ==
    IF ~key THEN Raise("ValueError")
    ELSE IF resp.kind \in {"ConnectionError", "Timeout", "HTTPError"} THEN Raise(resp.kind)
    ELSE IF resp.kind = "NotFound" THEN Ok(None)
    ELSE Ok(Some(resp.data))

\* dict.get(key, default)
GetOr(field, default) == IF field = None THEN default ELSE field[1]

RECURSIVE DigitPrefix(_)
DigitPrefix(s) ==
    IF s # <<>> /\ IsDigit(Head(s)) THEN <<Head(s)>> \o DigitPrefix(Tail(s)) ELSE <<>>

\* The loop of the year without "if year == 0: year = 2000"
YearOf_nodefault(year_str) == DigitsToNat(DigitPrefix(year_str))

\* The year the loop of _command_add_movie leaves: the number written by the
\* leading digits of year_str, or 2000 when that is 0
YearOf(year_str) ==
    LET Default(year) == IF year = 0 THEN 2000 ELSE year
    IN Default(DigitsToNat(DigitPrefix(year_str)))

\* The rating _command_add_movie takes from imdbRating
RatingOf(imdb_rating) ==
    IF imdb_rating = NA THEN 0
    ELSE LET Parsed(x) == IF x.exc = "none" THEN x.val ELSE 0
         IN Parsed(ParseFloat(imdb_rating))

\* The poster _command_add_movie takes from the data
PosterOf(data) ==
    IF data.Poster # None /\ data.Poster[1] # NA THEN data.Poster ELSE None

\* What a command did: the file it leaves, the exception that leaves it,
\* the last line it printed and the storage methods it called that write
Outcome(f, exc, out, calls) == [file |-> f, exc |-> exc, out |-> out, calls |-> calls]

\* The except clauses without the last one, "except Exception"
AddExcept_narrow(f, exc, calls) ==
    IF exc \in {"ConnectionError", "Timeout", "HTTPError"}
    THEN Outcome(f, "none", "Error: OMDb API", calls)
    ELSE Outcome(f, exc, "", calls)

\* The except clauses of _command_add_movie: every exception of the try
\* block ends in a printed line
AddExcept(f, exc, calls) ==
    Outcome(f, "none",
            CASE exc = "ConnectionError" ->
                    "Error: Could not connect to OMDb API. Please check your internet connection."
              [] exc = "Timeout" ->
                    "Error: Request to OMDb API timed out. Please try again later."
              [] exc = "HTTPError" -> "Error: An error occurred when accessing OMDb API"
              [] OTHER -> "Error: An unexpected error occurred",
            calls)

\* The try block of _command_add_movie once the data is there
AddFetched(s, f, title, data) ==
    LET Stored(res) ==
            IF res.exc # "none" THEN AddExcept(f, res.exc, <<"add_movie">>)
            ELSE Outcome(res.file, "none", "successfully added with data from OMDb API.",
                         <<"add_movie">>)
    IN Stored(add_movie(s, f, GetOr(data.Title, title), YearOf(GetOr(data.Year, <<"0">>)),
                        RatingOf(GetOr(data.imdbRating, NA)), PosterOf(data)))

command_add_movie(s, f, key, typed, resp) ==
    LET Fetched(title, got) ==
            IF got.exc # "none" THEN AddExcept(f, got.exc, <<>>)
            ELSE IF got.val = None THEN Outcome(f, "none", "not found in OMDb database.", <<>>)
            ELSE AddFetched(s, f, title, got.val[1])
        Listed(title, movies) ==
            IF movies.exc # "none" THEN Outcome(f, movies.exc, "", <<>>)
            ELSE IF DictHas(movies.val.items, title)
            THEN Outcome(f, "none", "already exists!", <<>>)
            ELSE Fetched(title, fetch_movie_from_api(key, resp))
        Titled(title) ==
            IF title = <<>> THEN Outcome(f, "none", "Error: Movie title cannot be empty.", <<>>)
            ELSE Listed(title, list_movies(s, f))
    IN Titled(Strip(typed))

command_delete_movie(s, f, typed) ==
    LET Deleted(res) ==
            IF res.exc # "none" THEN Outcome(f, res.exc, "", <<"delete_movie">>)
            ELSE Outcome(res.file, "none", "deleted!", <<"delete_movie">>)
        Listed(title, movies) ==
            IF movies.exc # "none" THEN Outcome(f, movies.exc, "", <<>>)
            ELSE IF ~DictHas(movies.val.items, title)
            THEN Outcome(f, "none", "does not exist.", <<>>)
            ELSE Deleted(delete_movie(s, f, title))
        Titled(title) ==
            IF title = <<>> THEN Outcome(f, "none", "Error: Movie title cannot be empty.", <<>>)
            ELSE Listed(title, list_movies(s, f))
    IN Titled(Strip(typed))

\* The Update command without the test of the range
command_update_movie_norange(s, f, typed, typedRating) ==
    LET Updated(res) ==
            IF res.exc # "none" THEN Outcome(f, res.exc, "", <<"update_movie">>)
            ELSE Outcome(res.file, "none", "updated successfully!", <<"update_movie">>)
        Rated(title, rating) ==
            IF rating.exc # "none"
            THEN Outcome(f, "none", "Error: Invalid input for rating.", <<>>)
            ELSE Updated(update_movie(s, f, title, rating.val))
        Listed(title, movies) ==
            IF movies.exc # "none" THEN Outcome(f, movies.exc, "", <<>>)
            ELSE IF ~DictHas(movies.val.items, title)
            THEN Outcome(f, "none", "does not exist.", <<>>)
            ELSE Rated(title, ParseFloat(typedRating))
        Titled(title) ==
            IF title = <<>> THEN Outcome(f, "none", "Error: Movie title cannot be empty.", <<>>)
            ELSE Listed(title, list_movies(s, f))
    IN Titled(Strip(typed))

command_update_movie(s, f, typed, typedRating) ==
    LET Updated(res) ==
            IF res.exc # "none" THEN Outcome(f, res.exc, "", <<"update_movie">>)
            ELSE Outcome(res.file, "none", "updated successfully!", <<"update_movie">>)
        Rated(title, rating) ==
            IF rating.exc # "none"
            THEN Outcome(f, "none", "Error: Invalid input for rating.", <<>>)
            ELSE IF ~(0 <= rating.val /\ rating.val <= 100)
            THEN Outcome(f, "none", "Error: Rating must be between 0 and 10.", <<>>)
            ELSE Updated(update_movie(s, f, title, rating.val))
        Listed(title, movies) ==
            IF movies.exc # "none" THEN Outcome(f, movies.exc, "", <<>>)
            ELSE IF ~DictHas(movies.val.items, title)
            THEN Outcome(f, "none", "does not exist.", <<>>)
            ELSE Rated(title, ParseFloat(typedRating))
        Titled(title) ==
            IF title = <<>> THEN Outcome(f, "none", "Error: Movie title cannot be empty.", <<>>)
            ELSE Listed(title, list_movies(s, f))
    IN Titled(Strip(typed))

\* The commands that only read the catalog and compute nothing the model
\* keeps: 1 list, 6 random, 7 search, 8 sorted by rating, 9 website.  Search
\* iterates movies.items(), which a list has not; the website is written
\* inside a try block.
ReadChoices == {"1", "6", "7", "8", "9"}

command_read_only(s, f, choice) ==
    LET Listed(movies) ==
            IF movies.exc # "none" THEN Outcome(f, movies.exc, "", <<>>)
            ELSE IF choice = "7" /\ movies.val.py # "dict"
            THEN Outcome(f, "AttributeError", "", <<>>)
            ELSE IF choice # "7" /\ movies.val.items = <<>>
            THEN Outcome(f, "none", "No movies in the database.", <<>>)
            ELSE Outcome(f, "none", "shown", <<>>)
    IN Listed(list_movies(s, f))

\* [details["rating"] for details in movies.values()]
RatingsOf(items) == [i \in 1..Len(items) |-> items[i].v.rating]

RECURSIVE Sum(_)
Sum(ratings) == IF ratings = <<>> THEN 0 ELSE Head(ratings) + Sum(Tail(ratings))

\* One element put in its place in a sorted list, after its equals
RECURSIVE Insert(_, _)
Insert(x, sorted) ==
    IF sorted = <<>> \/ x < Head(sorted) THEN <<x>> \o sorted
    ELSE <<Head(sorted)>> \o Insert(x, Tail(sorted))

\* sorted(ratings)
RECURSIVE Sorted(_)
Sorted(ratings) ==
    IF ratings = <<>> THEN <<>>
    ELSE Insert(ratings[Len(ratings)], Sorted(SubSeq(ratings, 1, Len(ratings) - 1)))

\* f"{x:.2f}" for x = tenths / den: the hundredth nearest to x, as a number of
\* hundredths.  No catalog of the model has a value halfway between two
\* hundredths, where the binary value of the float decides.
Format2f(tenths, den) == (20 * tenths + den) \div (2 * den)

\* The median of _command_movie_stats, as the fraction <<tenths, den>>
Median(sorted_ratings) ==
    LET length == Len(sorted_ratings)
        mid == length \div 2
    IN IF length % 2 = 0
       THEN <<sorted_ratings[mid] + sorted_ratings[mid + 1], 2>>
       ELSE <<sorted_ratings[mid + 1], 1>>

\* max(movies.items(), key=...) keeping the last of the equals
RECURSIVE MaxByRating_last(_, _)
MaxByRating_last(items, best) ==
    IF items = <<>> THEN best
    ELSE MaxByRating_last(Tail(items),
                          IF Head(items).v.rating >= best.v.rating THEN Head(items) ELSE best)

\* max(movies.items(), key=lambda x: x[1]["rating"]): an item replaces the
\* best so far when its key is greater
RECURSIVE MaxByRating(_, _)
MaxByRating(items, best) ==
    IF items = <<>> THEN best
    ELSE MaxByRating(Tail(items),
                     IF Head(items).v.rating > best.v.rating THEN Head(items) ELSE best)

\* min(movies.items(), key=lambda x: x[1]["rating"])
RECURSIVE MinByRating(_, _)
MinByRating(items, worst) ==
    IF items = <<>> THEN worst
    ELSE MinByRating(Tail(items),
                     IF Head(items).v.rating < worst.v.rating THEN Head(items) ELSE worst)

\* What _command_movie_stats printed: the average and the median in
\* hundredths, the best and the worst movie
StatsOf(items) ==
    LET Report(ratings, median) ==
            [average |-> Format2f(Sum(ratings), Len(ratings)),
             median |-> Format2f(median[1], median[2]),
             best |-> MaxByRating(Tail(items), Head(items)),
             worst |-> MinByRating(Tail(items), Head(items))]
        Rated(ratings) == Report(ratings, Median(Sorted(ratings)))
    IN Rated(RatingsOf(items))

\* _command_movie_stats: the outcome and, in a sequence of at most one
\* element, what was computed
command_movie_stats(s, f) ==
    LET Listed(movies) ==
            IF movies.exc # "none" THEN [res |-> Outcome(f, movies.exc, "", <<>>), stats |-> <<>>]
            ELSE IF movies.val.items = <<>>
            THEN [res |-> Outcome(f, "none", "No movies in the database.", <<>>),
                  stats |-> <<>>]
            ELSE [res |-> Outcome(f, "none", "Worst movie", <<>>),
                  stats |-> <<StatsOf(movies.val.items)>>]
    IN Listed(list_movies(s, f))

-----------------------------------------------------------------------------
(* MovieApp.run: one action is one turn of the loop *)

InitApp ==
    /\ storage \in {"json", "csv"}
    /\ jsonFile \in (IF storage = "json" THEN {StorageJson_init(f) : f \in JsonFiles}
                     ELSE {JsonMissing})
    /\ csvFile \in (IF storage = "csv" THEN {StorageCsv_init(f) : f \in CsvFiles}
                    ELSE {CsvMissing})
    /\ apiKey \in BOOLEAN
    /\ loop = "menu"
    /\ last = Last("init")

\* The command has run: an exception that leaves it leaves run() too
Ran(op, typed, typed2, fetch, pre, res) ==
    /\ SetFile(res.file)
    /\ loop' = IF res.exc # "none" THEN "raised" ELSE "menu"
    /\ last' = [Last(op) EXCEPT !.typed = typed, !.typed2 = typed2, !.title = Strip(typed),
                   !.fetch = fetch, !.pre = pre, !.exc = res.exc, !.out = res.out,
                   !.calls = res.calls]
    /\ UNCHANGED <<storage, apiKey>>

Exit ==
    /\ loop = "menu"
    /\ loop' = "exited"
    /\ last' = [Last("exit") EXCEPT !.pre = Listing, !.out = "Bye!"]
    /\ UNCHANGED <<storage, jsonFile, csvFile, apiKey>>

InvalidChoice ==
    /\ loop = "menu"
    /\ last' = [Last("invalid") EXCEPT !.pre = Listing,
                   !.out = "Invalid choice. Please try again."]
    /\ UNCHANGED <<storage, jsonFile, csvFile, apiKey, loop>>

ReadOnly(choice) ==
    /\ loop = "menu"
    /\ Ran("cmd_read", <<choice>>, <<>>, "none", Listing, command_read_only(storage, File, choice))

\* The lookup that was made, if the command came to it
Looked(key, typed, pre, resp) ==
    IF Strip(typed) = <<>> \/ pre.exc # "none" \/ DictHas(pre.val.items, Strip(typed))
    THEN "none"
    ELSE IF ~key THEN "NoApiKey" ELSE resp.kind

Add(typed, resp) ==
    /\ loop = "menu"
    /\ LET Go(pre) ==
               /\ (resp.kind = "Found" => Room(pre, GetOr(resp.data.Title, Strip(typed))))
               /\ Ran("cmd_add", typed, <<>>, Looked(apiKey, typed, pre, resp), pre,
                      command_add_movie(storage, File, apiKey, typed, resp))
       IN Go(Listing)

Delete(typed) ==
    /\ loop = "menu"
    /\ Ran("cmd_delete", typed, <<>>, "none", Listing, command_delete_movie(storage, File, typed))

Update(typed, typedRating) ==
    /\ loop = "menu"
    /\ Ran("cmd_update", typed, typedRating, "none", Listing,
           command_update_movie(storage, File, typed, typedRating))

Stats ==
    /\ loop = "menu"
    /\ LET Go(pre, got) ==
               /\ loop' = IF got.res.exc # "none" THEN "raised" ELSE "menu"
               /\ last' = [Last("cmd_stats") EXCEPT !.typed = <<"5">>, !.pre = pre,
                              !.exc = got.res.exc, !.out = got.res.out,
                              !.stats = got.stats]
       IN Go(Listing, command_movie_stats(storage, File))
    /\ UNCHANGED <<storage, jsonFile, csvFile, apiKey>>

NextApp ==
    \/ Exit
    \/ InvalidChoice
    \/ Stats
    \/ \E c \in ReadChoices : ReadOnly(c)
    \/ \E t \in TypedTitles, r \in Responses : Add(t, r)
    \/ \E t \in TypedTitles : Delete(t)
    \/ \E t \in TypedTitles, r \in TypedRatings : Update(t, r)

SpecApp == InitApp /\ [][NextApp]_vars

\* The storage object called directly, and the application
Init == InitStorage \/ InitApp

Next == NextStorage \/ NextApp

Spec == Init /\ [][Next]_vars

-----------------------------------------------------------------------------
(* The Stats command over every catalog of at most MaxStats movies *)

StatLetters == <<"A", "B", "C", "D", "E", "F">>

StatTitles == {<<StatLetters[i]>> : i \in 1..MaxStats}

\* Ratings 4.0, 8.0 and 10.0: movies of a catalog share them
StatRecords == {MovieData(1999, r, None) : r \in {40, 80, 100}}

StatCatalogs ==
    UNION { { c \in [1..n -> [k : StatTitles, v : StatRecords]] :
                \A i, j \in 1..n : c[i].k = c[j].k => i = j } : n \in 0..MaxStats }

\* The application started over the file that _save_movies wrote
InitStats ==
    /\ storage \in {"json", "csv"}
    /\ \E c \in StatCatalogs :
          /\ jsonFile = (IF storage = "json" THEN save_movies("json", c) ELSE JsonMissing)
          /\ csvFile = (IF storage = "csv" THEN save_movies("csv", c) ELSE CsvMissing)
    /\ apiKey = FALSE
    /\ loop = "menu"
    /\ last = Last("init")

NextStats == Stats

SpecStats == InitStats /\ [][NextStats]_vars

-----------------------------------------------------------------------------
(* The Add command for every year string of the lookup *)

YearChars == {"0", "1", "9", "-"}

\* The 'Year' of the answer: the key is absent, or a string of at most
\* MaxYearLen characters
YearStrings ==
    {None} \cup {Some(y) : y \in UNION {[1..n -> YearChars] : n \in 0..MaxYearLen}}

\* The application over an empty catalog, with an API key; the answer that
\* the lookup of the next Add gives holds last.year_str
InitYear ==
    /\ storage \in {"json", "csv"}
    /\ jsonFile = (IF storage = "json" THEN StorageJson_init(JsonMissing) ELSE JsonMissing)
    /\ csvFile = (IF storage = "csv" THEN StorageCsv_init(CsvMissing) ELSE CsvMissing)
    /\ apiKey = TRUE
    /\ loop = "menu"
    /\ \E y \in YearStrings : last = [Last("input") EXCEPT !.year_str = y]

\* Selection 2, the title "A" typed, the movie found
AddYear ==
    /\ loop = "menu"
    /\ last.op = "input"
    /\ LET Go(pre, res) ==
               /\ SetFile(res.file)
               /\ loop' = IF res.exc # "none" THEN "raised" ELSE "menu"
               /\ last' = [Last("cmd_add") EXCEPT !.typed = TA, !.title = TA,
                              !.fetch = "Found", !.pre = pre, !.exc = res.exc,
                              !.out = res.out, !.calls = res.calls,
                              !.year_str = last.year_str]
       IN Go(Listing,
             command_add_movie(storage, File, apiKey, TA,
                 [kind |-> "Found",
                  data |-> [Title |-> Some(TA), Year |-> last.year_str,
                            imdbRating |-> Some(<<"8", ".", "7">>), Poster |-> None]]))
    /\ UNCHANGED <<storage, apiKey>>

NextYear == AddYear

SpecYear == InitYear /\ [][NextYear]_vars

-----------------------------------------------------------------------------
(* Properties of the storage backends *)

\* The last operation found a catalog: its list_movies() returned a dict
PreIsCatalog == last.pre.exc = "none" /\ last.pre.val.py = "dict"

Pre == last.pre.val.items

\* list_movies() returns a dict now
NowIsCatalog == Listing.exc = "none" /\ Listing.val.py = "dict"

Now == Listing.val.items

InRange(rating) == 0 <= rating /\ rating <= 100

\* C1: after add_movie(title, year, rating[, poster]) with the rating in
\* [0,10] and the title not in the stored catalog C, list_movies() returns C
\* and exactly one more entry, title -> {year, rating} (and the poster when
\* one was given); every entry of C is returned unchanged.
C1_AddThenList ==
    (/\ last.op = "add_movie"
     /\ PreIsCatalog
     /\ ~DictHas(Pre, last.title)
     /\ InRange(last.rating))
    => /\ last.exc = "none"
       /\ NowIsCatalog
       /\ Len(Now) = Len(Pre) + 1
       /\ AsMap(Now) = AsMap(Pre) \cup {<<last.title, MovieData(last.year, last.rating, last.poster)>>}
       /\ (last.poster = None =>
              DictGet(Now, last.title) = [year |-> last.year, rating |-> last.rating])

\* C1 happens: a movie without a poster was added to a CSV catalog holding another one
C1_Witness ==
    /\ storage = "csv"
    /\ last.op = "add_movie"
    /\ PreIsCatalog
    /\ Len(Pre) >= 1
    /\ ~DictHas(Pre, last.title)
    /\ last.poster = None
    /\ NowIsCatalog
    /\ DictHas(Now, last.title)

\* C3: after update_movie(t, r) on a catalog holding t, the record of t has
\* rating r and the year and poster (present or absent) it had, every other
\* record and the set of titles are unchanged; without t in the catalog, the
\* catalog is unchanged.
C3_UpdateOnlyRating ==
    (last.op = "update_movie" /\ PreIsCatalog)
    => /\ last.exc = "none"
       /\ NowIsCatalog
       /\ Keys(Now) = Keys(Pre)
       /\ Len(Now) = Len(Pre)
       /\ \A k \in Keys(Pre) :
             IF k = last.title
             THEN /\ DictGet(Now, k).rating = last.rating
                  /\ DictGet(Now, k).year = DictGet(Pre, k).year
                  /\ DOMAIN DictGet(Now, k) = DOMAIN DictGet(Pre, k)
                  /\ ("poster" \in DOMAIN DictGet(Pre, k) =>
                         DictGet(Now, k).poster = DictGet(Pre, k).poster)
             ELSE DictGet(Now, k) = DictGet(Pre, k)

\* C3 happens: the rating of a movie with a poster changed in a catalog of two
C3_Witness ==
    /\ last.op = "update_movie"
    /\ PreIsCatalog
    /\ Len(Pre) = 2
    /\ DictHas(Pre, last.title)
    /\ "poster" \in DOMAIN DictGet(Pre, last.title)
    /\ DictGet(Pre, last.title).rating # last.rating
    /\ NowIsCatalog
    /\ DictGet(Now, last.title).rating = last.rating

\* The catalogs C5 is about: unique titles, a rating in [0,10], a poster that
\* is absent or not empty
WellFormed(movies) ==
    /\ \A i, j \in 1..Len(movies) : movies[i].k = movies[j].k => i = j
    /\ \A i \in 1..Len(movies) :
          /\ InRange(movies[i].v.rating)
          /\ ("poster" \in DOMAIN movies[i].v => movies[i].v.poster # <<>>)

\* C5: _save_movies(catalog) followed by list_movies() returns the same set
\* of (title, year, rating, poster) tuples, an absent poster still absent,
\* for both backends and every well-formed catalog.
C5_SaveLoadRoundTrip ==
    (last.op = "_save_movies" /\ WellFormed(last.movies))
    => /\ NowIsCatalog
       /\ Len(Now) = Len(last.movies)
       /\ AsMap(Now) = AsMap(last.movies)

\* C5 happens: a CSV catalog of two movies, one with a poster and one
\* without, a negative year and the rating 10.0, was saved and read back
C5_Witness ==
    /\ storage = "csv"
    /\ last.op = "_save_movies"
    /\ WellFormed(last.movies)
    /\ Len(last.movies) = 2
    /\ "poster" \in DOMAIN last.movies[1].v
    /\ "poster" \notin DOMAIN last.movies[2].v
    /\ last.movies[1].v.year < 0
    /\ last.movies[2].v.rating = 100
    /\ NowIsCatalog
    /\ Len(Now) = 2

\* The file is not a well-formed catalog file: it is missing, is not
\* decodable, or decodes to the wrong shape
CsvRowOk(header, row) ==
    \/ row = <<>>
    \/ /\ Len(row) >= 3
       /\ Field(header, row, "year").exc = "none"
       /\ Field(header, row, "rating").exc = "none"
       /\ ParseInt(Field(header, row, "year").val[1]).exc = "none"
       /\ ParseFloat(Field(header, row, "rating").val[1]).exc = "none"

Malformed(s, f) ==
    IF s = "json"
    THEN f.kind # "json" \/ f.doc.t # "object"
    ELSE \/ f.kind # "csv"
         \/ \E n \in {"title", "year", "rating"} : ~HasField(f.header, n)
         \/ \E i \in 1..Len(f.rows) : ~CsvRowOk(f.header, f.rows[i])

\* C6: over a missing or malformed file list_movies() returns the empty
\* mapping and raises nothing, and add_movie succeeds.
C6_MalformedIsEmpty ==
    storage \in {"json", "csv"}
    => /\ (Malformed(storage, File) => Listing = Ok(PyDict(<<>>)))
       /\ (last.op = "add_movie" => last.exc = "none")

\* C7: after every add_movie, delete_movie and update_movie given to a
\* StorageJson and a StorageCsv alike, from empty catalogs, list_movies()
\* returns the same mapping on both.
C7_SameCatalog ==
    storage = "both"
    => LET Same(j, c) ==
               /\ j.exc = "none" /\ c.exc = "none"
               /\ j.val.py = "dict" /\ c.val.py = "dict"
               /\ AsMap(j.val.items) = AsMap(c.val.items)
               /\ j.val.items = c.val.items
       IN Same(StorageJson_list_movies(jsonFile), StorageCsv_list_movies(csvFile))

\* C7 happens: both hold two movies, one with a poster, after an update
C7_Witness ==
    /\ storage = "both"
    /\ last.op = "update_movie"
    /\ StorageCsv_list_movies(csvFile).exc = "none"
    /\ Len(StorageCsv_list_movies(csvFile).val.items) = 2
    /\ DictHas(StorageCsv_list_movies(csvFile).val.items, last.title)
    /\ \E i \in 1..2 : "poster" \in DOMAIN StorageJson_list_movies(jsonFile).val.items[i].v

-----------------------------------------------------------------------------
(* Properties of the commands *)

\* The titles of Now are those of Pre without t, each with its record
Removed(t) ==
    /\ Len(Now) = Len(Pre) - 1
    /\ AsMap(Now) = AsMap(Pre) \ {<<t, DictGet(Pre, t)>>}

\* C2: after _command_add_movie the catalog is unchanged or has exactly one
\* more title, which was not there before, and every record that was there
\* keeps its year, rating and poster.
C2_AddNeverOverwrites ==
    (last.op = "cmd_add" /\ PreIsCatalog /\ NowIsCatalog)
    => /\ \A k \in Keys(Pre) : DictHas(Now, k) /\ DictGet(Now, k) = DictGet(Pre, k)
       /\ \/ Now = Pre
          \/ \E t \in Keys(Now) \ Keys(Pre) : Keys(Now) = Keys(Pre) \cup {t}

\* C4: delete_movie, and the Delete command given a title that is not empty,
\* leave the catalog unchanged and raise nothing when the title is not in it,
\* and the command prints that the movie does not exist; with the title in
\* the catalog, exactly that title goes and every other record stays.
C4_DeleteAbsent ==
    /\ (last.op = "delete_movie" /\ PreIsCatalog)
       => /\ last.exc = "none"
          /\ NowIsCatalog
          /\ IF DictHas(Pre, last.title) THEN Removed(last.title) ELSE Now = Pre
    /\ (last.op = "cmd_delete" /\ last.title # <<>> /\ PreIsCatalog)
       => /\ last.exc = "none"
          /\ loop = "menu"
          /\ NowIsCatalog
          /\ IF DictHas(Pre, last.title)
             THEN Removed(last.title) /\ last.out = "deleted!"
             ELSE Now = Pre /\ last.out = "does not exist." /\ last.calls = <<>>

\* C4 happens: the Delete command was given a title that a catalog with a
\* movie in it does not hold
C4_Witness ==
    /\ last.op = "cmd_delete"
    /\ last.title # <<>>
    /\ PreIsCatalog
    /\ Len(Pre) >= 1
    /\ ~DictHas(Pre, last.title)
    /\ last.out = "does not exist."

\* C8: in the application, from catalogs with ratings in [0,10], every
\* record of the catalog has a rating in [0,10] after every command.
C8_RatingsInRange ==
    (loop # "none" /\ NowIsCatalog)
    => \A i \in 1..Len(Now) : InRange(Now[i].v.rating)

\* C9: in the Update command on a title of the catalog, a typed rating that
\* is no number ("abc") is refused as invalid input, one outside [0,10]
\* ("11", "-1") as out of range; update_movie is not called and the catalog
\* is unchanged.
C9_InvalidRatingMutatesNothing ==
    (/\ last.op = "cmd_update"
     /\ PreIsCatalog
     /\ DictHas(Pre, last.title)
     /\ last.typed2 \in {<<"a", "b", "c">>, <<"1", "1">>, <<"-", "1">>})
    => /\ last.out = (IF last.typed2 = <<"a", "b", "c">>
                      THEN "Error: Invalid input for rating."
                      ELSE "Error: Rating must be between 0 and 10.")
       /\ last.calls = <<>>
       /\ last.exc = "none"
       /\ Listing = last.pre

\* C9 happens: "11" was typed as the new rating of a movie of the catalog
C9_Witness ==
    /\ last.op = "cmd_update"
    /\ PreIsCatalog
    /\ DictHas(Pre, last.title)
    /\ last.typed2 = <<"1", "1">>
    /\ last.out = "Error: Rating must be between 0 and 10."

\* C10: when the lookup of an Add ends in not-found, a connection failure, a
\* timeout, another HTTP error or a missing API key, the command calls no
\* storage method that writes, the catalog is unchanged, no exception leaves
\* the command and the loop is at the menu again.
C10_FailedLookupAbortsAdd ==
    (/\ last.op = "cmd_add"
     /\ last.fetch \in {"NotFound", "ConnectionError", "Timeout", "HTTPError", "NoApiKey"})
    => /\ last.calls = <<>>
       /\ Listing = last.pre
       /\ last.exc = "none"
       /\ loop = "menu"

\* C10 happens: an Add without an API key, over a catalog with a movie in it
C10_Witness ==
    /\ last.op = "cmd_add"
    /\ last.fetch = "NoApiKey"
    /\ PreIsCatalog
    /\ Len(Pre) >= 1
    /\ last.out = "Error: An unexpected error occurred"

\* C11: only Exit ends the loop.  run() has returned exactly when the
\* selection '0' was the one read last, and no selection, whatever the catalog
\* file holds, ends in an exception that leaves run().
C11_OnlyExitEnds ==
    /\ loop # "raised"
    /\ loop = "exited" <=> last.op = "exit"

\* The number of the ratings of the listing below v, and up to v
Below(v) == Cardinality({i \in 1..Len(Pre) : Pre[i].v.rating < v})

UpTo(v) == Cardinality({i \in 1..Len(Pre) : Pre[i].v.rating <= v})

\* The k-th smallest rating of the listing, equals counted
Kth(k) ==
    CHOOSE v \in {Pre[i].v.rating : i \in 1..Len(Pre)} : Below(v) < k /\ k <= UpTo(v)

\* Ten times the sum of the ratings of the first n movies of the listing
RECURSIVE Total(_)
Total(n) == IF n = 0 THEN 0 ELSE 10 * Pre[n].v.rating + Total(n - 1)

\* The movie is the first one of the listing with a rating no other exceeds
FirstOfMax(movie) ==
    \E i \in 1..Len(Pre) :
        /\ Pre[i] = movie
        /\ \A j \in 1..Len(Pre) : Pre[j].v.rating <= Pre[i].v.rating
        /\ \A j \in 1..(i - 1) : Pre[j].v.rating < Pre[i].v.rating

FirstOfMin(movie) ==
    \E i \in 1..Len(Pre) :
        /\ Pre[i] = movie
        /\ \A j \in 1..Len(Pre) : Pre[j].v.rating >= Pre[i].v.rating
        /\ \A j \in 1..(i - 1) : Pre[j].v.rating > Pre[i].v.rating

\* C12: over a catalog with movies the Stats command reports the mean of the
\* ratings (to the nearest hundredth), the median of the sorted ratings (the
\* middle one of an odd count, the mean of the two central ones of an even
\* count), as the best movie the first one in the order of the catalog with
\* the greatest rating and as the worst the first one with the least rating;
\* over an empty catalog it reports that there are no movies and computes
\* nothing.
C12_StatsResult ==
    (last.op = "cmd_stats" /\ PreIsCatalog) =>
        IF Pre = <<>>
        THEN last.out = "No movies in the database." /\ last.stats = <<>>
        ELSE /\ Len(last.stats) = 1
             /\ LET n == Len(Pre)
                    s == last.stats[1]
                    off == s.average * n - Total(n)
                IN /\ 2 * off <= n /\ -2 * off <= n
                   /\ s.median = IF n % 2 = 0
                                 THEN 5 * (Kth(n \div 2) + Kth(n \div 2 + 1))
                                 ELSE 10 * Kth((n + 1) \div 2)
                   /\ FirstOfMax(s.best)
                   /\ FirstOfMin(s.worst)

\* C12 happens: Stats over B 8.0, A 10.0, C 4.0, D 10.0 (in the order of the
\* file) reported the mean 8.00, the median 9.00, A as the best and C as the
\* worst movie
C12_Witness ==
    /\ last.op = "cmd_stats"
    /\ PreIsCatalog
    /\ Len(Pre) = 4
    /\ [i \in 1..4 |-> Pre[i].k] = <<TB, TA, <<"C">>, <<"D">>>>
    /\ [i \in 1..4 |-> Pre[i].v.rating] = <<80, 100, 40, 100>>
    /\ last.stats = << [average |-> 800, median |-> 900,
                        best |-> Pre[2], worst |-> Pre[3]] >>

\* C12 happens on an empty catalog too
C12_WitnessEmpty ==
    /\ last.op = "cmd_stats"
    /\ PreIsCatalog
    /\ Pre = <<>>
    /\ last.out = "No movies in the database."

\* An Add has stored the movie "A" of the answer of the lookup
StoredA ==
    /\ last.op = "cmd_add"
    /\ last.calls = <<"add_movie">>
    /\ last.exc = "none"
    /\ NowIsCatalog
    /\ DictHas(Now, TA)

\* The year string of the answer: '0' stands for an absent key
YearStr == IF last.year_str = None THEN <<"0">> ELSE last.year_str[1]

\* The length of the run of digits that year string y starts with
LeadingDigits(y) ==
    CHOOSE k \in 0..Len(y) :
        /\ \A i \in 1..k : IsDigit(y[i])
        /\ k < Len(y) => ~IsDigit(y[k + 1])

\* The number that the first k characters of y write
RECURSIVE Written(_, _)
Written(y, k) == IF k = 0 THEN 0 ELSE 10 * Written(y, k - 1) + DigitVal(y[k])

\* C13 as stated: the stored year is the integer of the four-digit prefix of
\* the year string, and 2000 when the string does not start with a digit; it
\* is always an integer.  (Nothing is asked here of a string that starts with
\* fewer than four digits, or with 0000.)
C13_FourDigitPrefix ==
    (StoredA /\ last.year_str # None) =>
        /\ DictGet(Now, TA).year \in Int
        /\ LeadingDigits(YearStr) = 0 => DictGet(Now, TA).year = 2000
        /\ (LeadingDigits(YearStr) >= 4 /\ Written(YearStr, 4) # 0)
              => DictGet(Now, TA).year = Written(YearStr, 4)

\* C13 amended: the stored year is the integer that the whole run of leading
\* digits of the year string writes, whatever its length, and 2000 when the
\* string does not start with a digit or its leading digits write 0; the
\* stored year is always an integer.
C13_LeadingDigits ==
    StoredA =>
        /\ DictGet(Now, TA).year \in Int
        /\ LET n == Written(YearStr, LeadingDigits(YearStr))
           IN DictGet(Now, TA).year = IF n = 0 THEN 2000 ELSE n

\* C13 happens: the year string "1999-" was stored as 1999
C13_Witness ==
    /\ StoredA
    /\ last.year_str = Some(<<"1", "9", "9", "9", "-">>)
    /\ DictGet(Now, TA).year = 1999

====
